---- MODULE Spec2Model ----
(***************************************************************************)
(* LLM council backend: the retrying member call (callModelWithRetry), the *)
(* bounded-concurrency scheduler (runInBatches) and the /council sessions  *)
(* of the repository's server variants.                                    *)
(*                                                                         *)
(* Four specifications share the variables below; each one drives its own  *)
(* group and leaves the others at their idle values (a jury-variant        *)
(* session also drives runInBatches):                                      *)
(*   SpecRetry    one call of callModelWithRetry                           *)
(*   SpecBatch    one run of runInBatches                                  *)
(*   SpecRank     the chairman variant from the ranking call on            *)
(*   Spec         one /council session of one server variant               *)
(***************************************************************************)
EXTENDS Integers, Sequences, FiniteSets, TLC

VARIABLES
  \* ---- callModelWithRetry: one call
  model,        \* model.provider of the member called
  maxAttempts,  \* the maxAttempts option
  attempt,      \* let attempt
  delay,        \* let delay (ms)
  rpc,          \* position in the function
  requests,     \* number of fetch() calls issued by this call
  sleeps,       \* the sleeps completed by this call, in order: <<kind, ms>>
  lastOutcome,  \* how the latest fetch settled
  ret,          \* the value returned
  \* ---- runInBatches: one run
  items,        \* the items argument
  batchSize,    \* the batchSize argument
  fnResult,     \* what fn(items[i], i) settles with, per index i
  results,      \* const results = new Array(items.length)
  index,        \* let index (0-based, as in the source)
  batchIndices, \* the current wave's batchIndices
  pending,      \* local indices of the wave whose worker has not settled
  launched,     \* indices whose worker has been started
  waves,        \* number of waves started
  bpc,          \* position in the function
  \* ---- one /council session
  variant,      \* which server variant handles the request
  prompt,       \* req.body.prompt, by kind
  spc,          \* position in the handler
  member,       \* roster position (1-based) of the member being called
  answers,      \* const answers = []
  memberOuts,   \* what each member call returned, in completion order: <<label, value>>
  rankingRaw,   \* the arbitrator's reply
  finalAnswer,  \* what the synthesis call returned
  ranked,       \* rankingIndices, confByRank, rankingReason, the score table, bestIndex
  calls,        \* the model calls issued so far, in order
  response,     \* what was sent to the caller
  responses     \* number of responses sent

retryVars == <<model, maxAttempts, attempt, delay, rpc, requests, sleeps, lastOutcome, ret>>
batchVars == <<items, batchSize, fnResult, results, index, batchIndices, pending, launched, waves, bpc>>
sessionVars == <<variant, prompt, spc, member, answers, memberOuts, rankingRaw, finalAnswer, ranked, calls, response, responses>>
vars == <<retryVars, batchVars, sessionVars>>

(***************************************************************************)
(* Values                                                                  *)
(***************************************************************************)
\* JavaScript null, as a return value or a result slot
Null == [tag |-> "null"]
\* a hole of new Array(n): a slot never assigned
Unset == [tag |-> "unset"]
\* a rejected promise
Reject == [tag |-> "reject"]
\* a non-empty string
Text(s) == [tag |-> "text", text |-> s]

Min(a, b) == IF a < b THEN a ELSE b
Max(a, b) == IF a > b THEN a ELSE b

(***************************************************************************)
(* callModelWithRetry                                                      *)
(***************************************************************************)
\* bound on the maxAttempts option drawn for a call
MaxTries == 6

DefaultBaseDelay == 2000
DelayCeiling == 20000
CooldownMs == 800

KnownProviders == {"groq", "openrouter", "gemini", "deepseek"}
Providers == KnownProviders \cup {"other"}

BASE_DELAY(p) ==
  CASE p = "groq" -> 1000
    [] p = "openrouter" -> 2500
    [] p = "gemini" -> 2000
    [] p = "deepseek" -> 2500
    [] OTHER -> 0

\* BASE_DELAY[model.provider] || 2000  (a missing key is undefined, hence falsy)
InitialDelay(p) == IF BASE_DELAY(p) = 0 THEN DefaultBaseDelay ELSE BASE_DELAY(p)

RetryableStatuses == {429, 500, 502, 503, 504}
\* failure statuses outside the retryable set, as samples
OtherStatuses == {400, 401, 404}

\* How one fetch can settle:
\*   transport   fetch() itself throws
\*   status      a response with !resp.ok
\*   badbody     resp.ok, resp.json() throws
\*   notext      resp.ok, no content extracted
\*   text        resp.ok, content extracted
FetchOutcomes ==
  {[kind |-> "transport"], [kind |-> "badbody"], [kind |-> "notext"], [kind |-> "text"]}
  \cup {[kind |-> "status", status |-> s] : s \in RetryableStatuses \cup OtherStatuses}

NoOutcome == [kind |-> "none"]

\* while (attempt <= maxAttempts)
LoopGuardOffByOne(a, m) == a <= m + 1
LoopGuard(a, m) == a <= m

\* try { ... } spans the request, the status branch and the body decoding, so
\* a throw of fetch() and a throw of resp.json() both land in the catch block
InsideTryFetchOnly(kind) == kind = "transport"
InsideTry(kind) == kind \in {"transport", "badbody"}

\* [429, 500, 502, 503, 504].includes(status) && attempt < maxAttempts
StatusRetriesWithoutCount(s, a, m) == s \in RetryableStatuses
StatusRetriesAnyStatus(s, a, m) == a < m
StatusRetries(s, a, m) == s \in RetryableStatuses /\ a < m

\* catch: if (attempt >= maxAttempts) return null;
CatchNeverGivesUp(a, m) == FALSE
CatchGivesUp(a, m) == a >= m

\* delay = Math.min(delay * 2, 20000)
NextDelayUncapped(d) == d * 2
NextDelay(d) == Min(d * 2, DelayCeiling)

RetryInit ==
  /\ model \in Providers
  /\ maxAttempts \in 0..MaxTries
  /\ attempt = 1
  /\ delay = InitialDelay(model)
  /\ rpc = "loop"
  /\ requests = 0
  /\ sleeps = <<>>
  /\ lastOutcome = NoOutcome
  /\ ret = Unset

RetryIdle ==
  /\ model = "groq"
  /\ maxAttempts = 0
  /\ attempt = 1
  /\ delay = InitialDelay("groq")
  /\ rpc = "idle"
  /\ requests = 0
  /\ sleeps = <<>>
  /\ lastOutcome = NoOutcome
  /\ ret = Unset

RetryReturn(v) ==
  /\ rpc' = "returned"
  /\ ret' = v

\* the loop test, the provider branch that builds the request, and the fetch call
LoopTest ==
  /\ rpc = "loop"
  /\ IF ~LoopGuard(attempt, maxAttempts)
       THEN RetryReturn(Null) /\ UNCHANGED requests
       ELSE IF model \notin KnownProviders
         THEN RetryReturn(Null) /\ UNCHANGED requests
         ELSE rpc' = "fetch" /\ requests' = requests + 1 /\ UNCHANGED ret
  /\ UNCHANGED <<model, maxAttempts, attempt, delay, sleeps, lastOutcome>>

\* the awaited fetch settles, and the code up to the next await or return runs
FetchSettles ==
  /\ rpc = "fetch"
  /\ \E o \in FetchOutcomes :
       /\ lastOutcome' = o
       /\ CASE o.kind = "status" ->
                 IF StatusRetries(o.status, attempt, maxAttempts)
                   THEN rpc' = "backoff" /\ UNCHANGED ret
                   ELSE RetryReturn(Null)
            [] o.kind \in {"transport", "badbody"} ->
                 IF ~InsideTry(o.kind)
                   THEN rpc' = "raised" /\ UNCHANGED ret
                   ELSE IF CatchGivesUp(attempt, maxAttempts)
                     THEN RetryReturn(Null)
                     ELSE rpc' = "backoff" /\ UNCHANGED ret
            [] o.kind = "notext" -> RetryReturn(Null)
            [] o.kind = "text" -> rpc' = "cooldown" /\ UNCHANGED ret
  /\ UNCHANGED <<model, maxAttempts, attempt, delay, requests, sleeps>>

\* await sleep(delay) completes; delay doubles, attempt += 1, back to the loop test
BackoffWake ==
  /\ rpc = "backoff"
  /\ sleeps' = Append(sleeps, <<"backoff", delay>>)
  /\ delay' = NextDelay(delay)
  /\ attempt' = attempt + 1
  /\ rpc' = "loop"
  /\ UNCHANGED <<model, maxAttempts, requests, lastOutcome, ret>>

\* the content returned at once, with no pause before it
CooldownWakeNoSleep ==
  /\ rpc = "cooldown"
  /\ RetryReturn(Text("content"))
  /\ UNCHANGED <<model, maxAttempts, attempt, delay, requests, sleeps, lastOutcome>>

\* await sleep(800) completes; return content
CooldownWake ==
  /\ rpc = "cooldown"
  /\ sleeps' = Append(sleeps, <<"cooldown", CooldownMs>>)
  /\ RetryReturn(Text("content"))
  /\ UNCHANGED <<model, maxAttempts, attempt, delay, requests, lastOutcome>>

RetryNext ==
  \/ LoopTest /\ UNCHANGED <<batchVars, sessionVars>>
  \/ FetchSettles /\ UNCHANGED <<batchVars, sessionVars>>
  \/ BackoffWake /\ UNCHANGED <<batchVars, sessionVars>>
  \/ CooldownWake /\ UNCHANGED <<batchVars, sessionVars>>

(***************************************************************************)
(* runInBatches                                                            *)
(***************************************************************************)
\* bounds on the items and the batchSize drawn for a run
MaxItems == 5
MaxBatch == 3

\* the i-th item (1-based) of a run over generic items
Item(i) == [item |-> i]

\* what fn returns for an item when it does not reject
Echo(it) == [tag |-> "value", of |-> it]

\* batchIndices of the wave that starts at index ix (0-based indices)
WaveIndicesUnbounded(ix, size, n) == [k \in 1..(n - ix) |-> ix + (k - 1)]
WaveIndices(ix, size, n) ==
  [k \in 1..Min(size, n - ix) |-> ix + (k - 1)]

\* .then(res => { results[batchIndices[localIdx]] = res; })
OnFulfilLocal(res, bi, localIdx, v) == [res EXCEPT ![localIdx] = v]
OnFulfil(res, bi, localIdx, v) == [res EXCEPT ![bi[localIdx] + 1] = v]

\* .catch(() => { results[batchIndices[localIdx]] = null; })
OnRejectDropped(res, bi, localIdx) == res
OnRejectLocal(res, bi, localIdx) == [res EXCEPT ![localIdx] = Null]
OnReject(res, bi, localIdx) == [res EXCEPT ![bi[localIdx] + 1] = Null]

BatchStart(its, size, fr) ==
  /\ items' = its
  /\ batchSize' = size
  /\ fnResult' = fr
  /\ results' = [i \in 1..Len(its) |-> Unset]
  /\ index' = 0
  /\ batchIndices' = <<>>
  /\ pending' = {}
  /\ launched' = {}
  /\ waves' = 0
  /\ bpc' = "loop"

BatchInit ==
  \E n \in 0..MaxItems :
    /\ items = [i \in 1..n |-> Item(i)]
    /\ batchSize \in 0..MaxBatch
    /\ \E rejects \in SUBSET (1..n) :
         fnResult = [i \in 1..n |-> IF i \in rejects THEN Reject ELSE Echo(Item(i))]
    /\ results = [i \in 1..n |-> Unset]
    /\ index = 0
    /\ batchIndices = <<>>
    /\ pending = {}
    /\ launched = {}
    /\ waves = 0
    /\ bpc = "loop"

BatchIdle ==
  /\ items = <<>>
  /\ batchSize = 0
  /\ fnResult = <<>>
  /\ results = <<>>
  /\ index = 0
  /\ batchIndices = <<>>
  /\ pending = {}
  /\ launched = {}
  /\ waves = 0
  /\ bpc = "idle"

\* what the worker of 1-based index i settles with
Settled(i) == fnResult[i]

\* while (index < items.length): build the wave and start all its workers
WaveStart ==
  /\ bpc = "loop"
  /\ index < Len(items)
  /\ waves <= MaxItems   \* a batchSize below 1 never advances index: stop counting its empty waves
  /\ LET bi == WaveIndices(index, batchSize, Len(items)) IN
       /\ batchIndices' = bi
       /\ index' = index + Len(bi)
       /\ pending' = 1..Len(bi)
       /\ launched' = launched \cup {bi[k] + 1 : k \in 1..Len(bi)}
  /\ waves' = waves + 1
  /\ bpc' = "wave"
  /\ UNCHANGED <<items, batchSize, fnResult, results>>

\* one worker of the wave settles, in any order, and its handler writes its slot
WorkerSettles ==
  /\ bpc = "wave"
  /\ \E k \in pending :
       LET out == Settled(batchIndices[k] + 1) IN
         /\ results' = IF out = Reject
                         THEN OnReject(results, batchIndices, k)
                         ELSE OnFulfil(results, batchIndices, k, out)
         /\ pending' = pending \ {k}
  /\ UNCHANGED <<items, batchSize, fnResult, index, batchIndices, launched, waves, bpc>>

\* a loop that pauses between waves only, not after the last one
WaveDoneLastUnpaused ==
  /\ bpc = "wave"
  /\ pending = {}
  /\ bpc' = IF index < Len(items) THEN "pause" ELSE "loop"
  /\ UNCHANGED <<items, batchSize, fnResult, results, index, batchIndices, pending, launched, waves>>

\* Promise.all resolves once every worker of the wave has settled
WaveDone ==
  /\ bpc = "wave"
  /\ pending = {}
  /\ bpc' = "pause"
  /\ UNCHANGED <<items, batchSize, fnResult, results, index, batchIndices, pending, launched, waves>>

\* the inter-wave setTimeout(1200) fires
PauseDone ==
  /\ bpc = "pause"
  /\ bpc' = "loop"
  /\ UNCHANGED <<items, batchSize, fnResult, results, index, batchIndices, pending, launched, waves>>

\* the loop test fails: return results
BatchReturn ==
  /\ bpc = "loop"
  /\ ~(index < Len(items))
  /\ bpc' = "returned"
  /\ UNCHANGED <<items, batchSize, fnResult, results, index, batchIndices, pending, launched, waves>>

BatchNext ==
  \/ WaveStart /\ UNCHANGED <<retryVars, sessionVars>>
  \/ WorkerSettles /\ UNCHANGED <<retryVars, sessionVars>>
  \/ WaveDone /\ UNCHANGED <<retryVars, sessionVars>>
  \/ PauseDone /\ UNCHANGED <<retryVars, sessionVars>>
  \/ BatchReturn /\ UNCHANGED <<retryVars, sessionVars>>

(***************************************************************************)
(* Arbitrator reply: parsing, validation and scoring (chairman variant)    *)
(*                                                                         *)
(* Numbers: a confidence is kept in tenths (6 is 0.6, 10 is 1.0), so a      *)
(* weighted score is in tenths too. A JSON entry of the "ranking" array is  *)
(* kept in tenths as well (20 is 2, 15 is 1.5) so that parseInt has its     *)
(* truncation to do. NaN stands for a value Number()/parseInt() maps to NaN.*)
(***************************************************************************)
\* bound on the number of collected answers, and on the length of a reply's arrays
MaxN == 3

NaN == -999
\* A field of the parsed object: Absent when the object does not have it (or it
\* fails the Array.isArray / typeof test made on it), Some(x) when it holds x
Absent == <<>>
Some(x) == <<x>>

\* the "reason" a reply may carry: none, a sentence, blanks only
Reasons == {Absent, Some("why"), Some(" ")}

Range(f) == {f[i] : i \in DOMAIN f}

\* reduce((a, b) => a + b, 0)
RECURSIVE SeqSum(_)
SeqSum(q) == IF q = <<>> THEN 0 ELSE Head(q) + SeqSum(Tail(q))

\* sequences of length 0..k over S
SeqsUpTo(S, k) == UNION {[1..m -> S] : m \in 0..k}

\* parseInt(v, 10)
ParseInt(v) == IF v = NaN THEN NaN ELSE v \div 10

\* Math.max(0, Math.min(1, x)), in tenths
Clamp(x) == Max(0, Min(10, x))

\* v => { const x = Number(v); if (Number.isNaN(x)) return 1; return clamp(x) }
\* an entry that is not a number counted as no confidence at all
ParseConfidenceFailClosed(v) == IF v = NaN THEN 0 ELSE Clamp(v)
ParseConfidence(v) == IF v = NaN THEN 10 ELSE Clamp(v)

\* Array.from({ length: n }, (_, i) => i + 1)
ReversedOrder(n) == [i \in 1..n |-> n + 1 - i]
IdentityOrder(n) == [i \in 1..n |-> i]
\* Array.from({ length: n }, () => 1)
HalfConfidence(n) == [i \in 1..n |-> 5]
UnitConfidence(n) == [i \in 1..n |-> 10]

\* The arbitrator's reply as callModelWithRetry returns it:
\*   Null                     the call returned null
\*   [kind |-> "garbage"]     JSON.parse of the extracted span throws
\*   [kind |-> "json", ...]   the span parses; ranking and confidence are the
\*                            arrays found (or Absent), reason the string found
GarbageReply == [kind |-> "garbage"]
JsonReply(r, c, why) == [kind |-> "json", ranking |-> r, confidence |-> c, reason |-> why]

\* the try block: what rankingIndices is after it
ParsedRanking(raw) ==
  IF raw = Null \/ raw.kind = "garbage" \/ raw.ranking = Absent
    THEN <<>>
    ELSE [i \in 1..Len(raw.ranking[1]) |-> ParseInt(raw.ranking[1][i])]

\* the try block: what confByRank is after it
ParsedConfidence(raw) ==
  IF raw = Null \/ raw.kind = "garbage" \/ raw.confidence = Absent
    THEN <<>>
    ELSE [i \in 1..Len(raw.confidence[1]) |-> ParseConfidence(raw.confidence[1][i])]

DefaultReason == "No reason parsed."

\* a reason of blanks only is " "; trim() of the others is themselves
TrimReason(why) == IF why = " " THEN "" ELSE why

\* the try block: what rankingReason is after it
ParsedReason(raw) ==
  IF raw = Null \/ raw.kind = "garbage" \/ raw.reason = Absent \/ TrimReason(raw.reason[1]) = ""
    THEN DefaultReason
    ELSE TrimReason(raw.reason[1])

\* if (!rankingIndices.length || rankingIndices.length !== n) -> identity
LengthChecked(ri, n) == IF Len(ri) = 0 \/ Len(ri) # n THEN IdentityOrder(n) ELSE ri

\* if (!confByRank.length || confByRank.length !== n) -> all 1
ConfidenceChecked(cf, n) == IF Len(cf) = 0 \/ Len(cf) # n THEN UnitConfidence(n) ELSE cf

\* expectedSet.size !== gotSet.size || [...expectedSet].some(v => !gotSet.has(v)) -> identity
SetChecked(ri, n) ==
  IF Cardinality(1..n) # Cardinality(Range(ri)) \/ (\E v \in 1..n : v \notin Range(ri))
    THEN IdentityOrder(n)
    ELSE ri

\* rankingIndices as it reaches the scoring loop
ValidatedRanking(raw, n) == SetChecked(LengthChecked(ParsedRanking(raw), n), n)
\* confByRank as it reaches the scoring loop
ValidatedConfidence(raw, n) == ConfidenceChecked(ParsedConfidence(raw), n)

\* rankingIndices.indexOf(answerNumber), 0-based, -1 when absent
IndexOf(ri, x) ==
  IF \E i \in 1..Len(ri) : ri[i] = x
    THEN (CHOOSE i \in 1..Len(ri) : ri[i] = x /\ \A j \in 1..(i - 1) : ri[j] # x) - 1
    ELSE -1

\* confByRank[rankPos] ?? 1
ConfAt(cf, rankPos) == IF rankPos + 1 \in DOMAIN cf THEN cf[rankPos + 1] ELSE 10

\* the scoring loop: pointsPerAnswer (in tenths)
PointsByAnswerSlot(ri, cf, n) ==
  [k \in 1..n |->
    LET rankPos == IndexOf(ri, k) IN
      IF rankPos = -1 THEN 0 ELSE (n - rankPos) * Clamp(ConfAt(cf, k - 1))]
PointsPerAnswer(ri, cf, n) ==
  [k \in 1..n |->
    LET rankPos == IndexOf(ri, k) IN
      IF rankPos = -1 THEN 0 ELSE (n - rankPos) * Clamp(ConfAt(cf, rankPos))]

\* the scoring loop: avgConfPerAnswer (in tenths)
AvgConfPerAnswer(ri, cf, n) ==
  [k \in 1..n |->
    LET rankPos == IndexOf(ri, k) IN
      IF rankPos = -1 THEN 0 ELSE Clamp(ConfAt(cf, rankPos))]

\* pointsPerAnswer.reduce((m, v) => (v > m ? v : m), 0)
TotalPoints(pts) == SeqSum(pts)
MaxPoints(pts) ==
  IF \E k \in DOMAIN pts : pts[k] > 0
    THEN CHOOSE m \in Range(pts) : \A k \in DOMAIN pts : pts[k] <= m
    ELSE 0

\* Math.round(x) of the non-negative quotient a / b: halves round up
RoundDiv(a, b) == (2 * a + b) \div (2 * b)

\* maxPoints <= 0 ? 0 : Math.round((v / maxPoints) * 100)
Percentages(pts) ==
  [k \in DOMAIN pts |->
    IF MaxPoints(pts) <= 0 THEN 0 ELSE RoundDiv(100 * pts[k], MaxPoints(pts))]

\* reduce((idx, v, i) => (v > pts[idx] ? i : idx), 0) + 1: the first largest
ArgMax(pts) ==
  CHOOSE k \in DOMAIN pts :
    /\ \A j \in DOMAIN pts : pts[j] <= pts[k]
    /\ \A j \in 1..(k - 1) : pts[j] < pts[k]

\* rankingIndices.length > 0 ? rankingIndices[0] : argmax + 1
BestIndex(ri, pts) == IF Len(ri) > 0 THEN ri[1] ELSE ArgMax(pts)

\* answers[bestIndex - 1] || answers[0]
BestAnswerFirst(ans, best) == ans[1]
BestAnswer(ans, best) == IF best \in DOMAIN ans THEN ans[best] ELSE ans[1]

(***************************************************************************)
(* /council sessions                                                       *)
(***************************************************************************)
\* bound on the roster (MODELS) of a session
RosterSize == 2

\* MODELS, by position; the label of the member at position i is i
Roster == 1..RosterSize
\* const CHAIRMAN = MODELS[1]
ChairmanLabel == 2

\* what a member call can return besides null: plain text, padded text, blanks only
MemberTexts == {"a", " b ", " "}
MemberReturns == {Null} \cup {Text(t) : t \in MemberTexts}

\* what the synthesis call can return
SynthesisReturns == {Null, Text("synthesis")}

NoRanked == [kind |-> "none"]
NoResponse == [kind |-> "none"]

ErrorResponse(code, msg) == [kind |-> "error", status |-> code, error |-> msg]

SessionIdle ==
  /\ variant = "none"
  /\ prompt = "none"
  /\ spc = "idle"
  /\ member = 0
  /\ answers = <<>>
  /\ memberOuts = <<>>
  /\ rankingRaw = Unset
  /\ finalAnswer = Unset
  /\ ranked = NoRanked
  /\ calls = <<>>
  /\ response = NoResponse
  /\ responses = 0

\* res.json(...) / res.status(...).json(...)
Send(r) ==
  /\ response' = r
  /\ responses' = responses + 1

(* ------------------------- chairman variant ---------------------------- *)
\* !prompt || typeof prompt !== "string"
\* the handlers that collect the answers one member after another, behind the
\* same prompt check and warmup (part_003 and part_000 share this code)
SequentialVariants == {"chairman", "best"}

\* if (!answers.length)
NoAnswersNever(ans) == FALSE
NoAnswers(ans) == Len(ans) = 0

ChairmanRejectsPrompt(p) == p \in {"missing", "empty", "number"}

\* sections 2 and 3 of the handler, from the arbitrator's reply to bestIndex
\* a scoring that reads the session's call log besides its three inputs
RankReadingCallLog(raw, n) ==
  LET ri == ValidatedRanking(raw, n)
      cf == ValidatedConfidence(raw, n)
      pts == [i \in 1..n |-> PointsPerAnswer(ri, cf, n)[i] + Len(calls)]
  IN [kind |-> "ranked",
      rankingIndices |-> ri,
      confByRank |-> cf,
      rankingReason |-> ParsedReason(raw),
      pointsPerAnswer |-> pts,
      percentages |-> Percentages(pts),
      avgConfPerAnswer |-> AvgConfPerAnswer(ri, cf, n),
      bestIndex |-> BestIndex(ri, pts)]

Rank(raw, n) ==
  LET ri == ValidatedRanking(raw, n)
      cf == ValidatedConfidence(raw, n)
      pts == PointsPerAnswer(ri, cf, n)
  IN [kind |-> "ranked",
      rankingIndices |-> ri,
      confByRank |-> cf,
      rankingReason |-> ParsedReason(raw),
      pointsPerAnswer |-> pts,
      percentages |-> Percentages(pts),
      avgConfPerAnswer |-> AvgConfPerAnswer(ri, cf, n),
      bestIndex |-> BestIndex(ri, pts)]

\* finalAnswer || bestAnswer.text || "Final answer unavailable."
FinalTextNoFallback(fin, best) == IF fin # Null THEN fin.text ELSE ""
FinalText(fin, best) ==
  IF fin # Null /\ fin.text # "" THEN fin.text
  ELSE IF best.text # "" THEN best.text
  ELSE "Final answer unavailable."

ChairmanPayload(ans, rk, fin) ==
  [kind |-> "result",
   status |-> 200,
   chairman |-> ChairmanLabel,
   modelsAttempted |-> [i \in Roster |-> i],
   modelsUsed |-> [i \in DOMAIN ans |-> ans[i].label],
   bestIndex |-> rk.bestIndex,
   bestModel |-> BestAnswer(ans, rk.bestIndex).label,
   ranking |-> rk.rankingIndices,
   rankingReason |-> rk.rankingReason,
   percentages |-> rk.percentages,
   avgConfidences |-> rk.avgConfPerAnswer,
   final |-> FinalText(fin, BestAnswer(ans, rk.bestIndex)),
   transcripts |-> [i \in DOMAIN ans |-> [model |-> ans[i].label, answer |-> ans[i].text]]]

\* the ranking request: the count, the question, and per answer
\* `${i + 1}. (${a.label})\n${a.text}`
RankingPrompt(q, ans) ==
  [n |-> Len(ans),
   question |-> q,
   answers |-> [i \in DOMAIN ans |->
                  [ordinal |-> i, label |-> ans[i].label, text |-> ans[i].text]]]

\* the request arrives; the prompt check
ChairmanReceive ==
  /\ variant \in SequentialVariants
  /\ spc = "start"
  /\ IF ChairmanRejectsPrompt(prompt)
       THEN /\ Send(ErrorResponse(400, "Missing prompt in body."))
            /\ spc' = "done"
       ELSE /\ spc' = "warmup"
            /\ UNCHANGED <<response, responses>>
  /\ UNCHANGED <<variant, prompt, memberOuts, finalAnswer, member, answers, rankingRaw, ranked, calls>>

\* await sleep(1500) completes; the first member call is issued
ChairmanWarmupDone ==
  /\ variant \in SequentialVariants
  /\ spc = "warmup"
  /\ member' = 1
  /\ calls' = Append(calls, <<"member", 1>>)
  /\ spc' = "member"
  /\ UNCHANGED <<variant, prompt, memberOuts, finalAnswer, answers, rankingRaw, ranked, response, responses>>

\* a loop with no stagger between members: the next call leaves as soon as the
\* previous one has returned
ChairmanMemberReturnsUnstaggered ==
  /\ variant \in SequentialVariants
  /\ spc = "member"
  /\ \E out \in MemberReturns :
       /\ memberOuts' = Append(memberOuts, <<member, out>>)
       /\ answers' = IF out # Null
                       THEN Append(answers, [label |-> member, text |-> out.text])
                       ELSE answers
  /\ IF member < RosterSize
       THEN /\ member' = member + 1
            /\ calls' = Append(calls, <<"member", member + 1>>)
            /\ spc' = "member"
       ELSE /\ spc' = "stagger"
            /\ UNCHANGED <<member, calls>>
  /\ UNCHANGED <<variant, prompt, finalAnswer, rankingRaw, ranked, response, responses>>

\* callModelWithRetry for MODELS[member] returns; if (answer) answers.push(...)
ChairmanMemberReturns ==
  /\ variant \in SequentialVariants
  /\ spc = "member"
  /\ \E out \in MemberReturns :
       /\ memberOuts' = Append(memberOuts, <<member, out>>)
       /\ answers' = IF out # Null
                       THEN Append(answers, [label |-> member, text |-> out.text])
                       ELSE answers
  /\ spc' = "stagger"
  /\ UNCHANGED <<variant, prompt, finalAnswer, member, rankingRaw, ranked, calls, response, responses>>

\* await sleep(extraDelay) completes; the next member call, or the end of the loop:
\* the empty-roster check, then the ranking call
ChairmanStaggerDone ==
  /\ variant \in SequentialVariants
  /\ spc = "stagger"
  /\ IF member < RosterSize
       THEN /\ member' = member + 1
            /\ calls' = Append(calls, <<"member", member + 1>>)
            /\ spc' = "member"
            /\ UNCHANGED <<response, responses>>
       ELSE IF NoAnswers(answers)
         THEN /\ Send(ErrorResponse(500, "No models returned an answer."))
              /\ spc' = "done"
              /\ UNCHANGED <<member, calls>>
         ELSE /\ calls' = Append(calls, <<"rank", ChairmanLabel, RankingPrompt(prompt, answers)>>)
              /\ spc' = "ranking"
              /\ UNCHANGED <<member, response, responses>>
  /\ UNCHANGED <<variant, prompt, memberOuts, finalAnswer, answers, rankingRaw, ranked>>

\* the ranking call returns `raw`; parse, validate, score, and issue the synthesis call
ChairmanRankingReturns(raw) ==
  /\ variant = "chairman"
  /\ spc = "ranking"
  /\ rankingRaw' = raw
  /\ ranked' = Rank(raw, Len(answers))
  /\ calls' = Append(calls, <<"synth", ChairmanLabel>>)
  /\ spc' = "synthesis"
  /\ UNCHANGED <<variant, prompt, memberOuts, finalAnswer, member, answers, response, responses>>

\* the synthesis call returns; the payload is sent
ChairmanSynthesisReturns ==
  /\ variant = "chairman"
  /\ spc = "synthesis"
  /\ \E fin \in SynthesisReturns :
       /\ finalAnswer' = fin
       /\ Send(ChairmanPayload(answers, ranked, fin))
  /\ spc' = "done"
  /\ UNCHANGED <<variant, prompt, memberOuts, member, answers, rankingRaw, ranked, calls>>

(* ------------------------- best-pick variant --------------------------- *)
\* The arbitrator's reply as the three patterns see it:
\*   best      the digits matched by /BEST[:\s]*\[(\d+)\]/i, as a number
\*   ranking   the tokens of the text matched by /RANKING[:\s]*\[(.*?)\]/i after
\*             split and parseInt (NaN for a token that is not a number)
\*   reason    the text matched by /REASON[:\s]*(.+)/i
\* each Absent when its pattern does not match
BestReply(b, r, why) == [kind |-> "format", best |-> b, ranking |-> r, reason |-> why]

\* if (!Number.isNaN(k) && k >= 1 && k <= n) bestIndex = k;  (bestIndex starts at 1)
BestPicked(raw, n) ==
  IF raw = Null \/ raw.best = Absent THEN 1
  ELSE IF raw.best[1] # NaN /\ raw.best[1] >= 1 /\ raw.best[1] <= n THEN raw.best[1]
  ELSE 1

\* .filter(v => !Number.isNaN(v) && v >= 1 && v <= n)
RECURSIVE KeepInRange(_, _)
KeepInRange(q, n) ==
  IF q = <<>> THEN <<>>
  ELSE (IF Head(q) # NaN /\ Head(q) >= 1 /\ Head(q) <= n THEN <<Head(q)>> ELSE <<>>)
       \o KeepInRange(Tail(q), n)

\* ranking after the parse and after if (!ranking.length) ranking = [1..n]
BestRanking(raw, n) ==
  LET kept == IF raw = Null \/ raw.ranking = Absent THEN <<>>
              ELSE KeepInRange(raw.ranking[1], n)
  IN IF Len(kept) = 0 THEN IdentityOrder(n) ELSE kept

\* if (reasonMatch) rankingReason = reasonMatch[1].trim();
BestReason(raw) ==
  IF raw = Null \/ raw.reason = Absent THEN DefaultReason ELSE TrimReason(raw.reason[1])

BestRank(raw, n) ==
  [kind |-> "best",
   bestIndex |-> BestPicked(raw, n),
   rankingIndices |-> BestRanking(raw, n),
   rankingReason |-> BestReason(raw)]

BestPayload(ans, rk, fin) ==
  [kind |-> "result",
   status |-> 200,
   chairman |-> ChairmanLabel,
   modelsAttempted |-> [i \in Roster |-> i],
   modelsUsed |-> [i \in DOMAIN ans |-> ans[i].label],
   bestIndex |-> rk.bestIndex,
   bestModel |-> BestAnswer(ans, rk.bestIndex).label,
   ranking |-> rk.rankingIndices,
   rankingReason |-> rk.rankingReason,
   final |-> FinalText(fin, BestAnswer(ans, rk.bestIndex))]

\* what the arbitrator may reply: nothing, text matching no pattern, or text in
\* which each pattern matches or not
BestReplies(n) ==
  {Null}
  \cup {BestReply(b, r, why) :
          b \in {Absent} \cup {Some(k) : k \in 0..(n + 1)},
          r \in {Absent, Some(<<>>), Some([i \in 1..n |-> n + 1 - i]), Some(<<n>>),
                 Some(<<NaN, n + 1>>)},
          why \in Reasons}

\* the ranking call returns; the three patterns are applied; the synthesis call
BestRankingReturns ==
  /\ variant = "best"
  /\ spc = "ranking"
  /\ \E raw \in BestReplies(Len(answers)) :
       /\ rankingRaw' = raw
       /\ ranked' = BestRank(raw, Len(answers))
  /\ calls' = Append(calls, <<"synth", ChairmanLabel>>)
  /\ spc' = "synthesis"
  /\ UNCHANGED <<variant, prompt, memberOuts, finalAnswer, member, answers, response, responses>>

\* the synthesis call returns; the payload is sent
BestSynthesisReturns ==
  /\ variant = "best"
  /\ spc = "synthesis"
  /\ \E fin \in SynthesisReturns :
       /\ finalAnswer' = fin
       /\ Send(BestPayload(answers, ranked, fin))
  /\ spc' = "done"
  /\ UNCHANGED <<variant, prompt, memberOuts, member, answers, rankingRaw, ranked, calls>>

(* --------------------------- jury variant ------------------------------ *)
\* runInBatches(MODELS, 3, ...) and runInBatches(answers, 2, ...)
CollectConcurrency == 3
ReviewConcurrency == 2

\* (req.body?.prompt || "").trim() on a truthy non-string: TypeError, before the try
JuryPromptThrows(p) == p = "number"
\* if (!prompt)
JuryRejectsPrompt(p) == p \in {"missing", "empty"}

\* String.prototype.trim on the texts a member can return
Trim(t) == IF t = " b " THEN "b" ELSE IF t = " " THEN "" ELSE t

\* ans && typeof ans === "string" && ans.trim().length > 0
UsableAnyString(out) == out # Null /\ out # Unset
Usable(out) == out # Null /\ out # Unset /\ Trim(out.text) # ""

\* firstResults.forEach(...): the usable results, in roster order, trimmed
RECURSIVE JuryAnswers(_, _)
JuryAnswers(res, i) ==
  IF i > Len(res) THEN <<>>
  ELSE (IF Usable(res[i]) THEN <<[label |-> i, text |-> Trim(res[i].text)]>> ELSE <<>>)
       \o JuryAnswers(res, i + 1)

\* what a reviewer's reply may carry as "confidence": a number in tenths, or not a number
ReviewConfidence(raw) ==
  IF raw.confidence = Absent \/ raw.confidence[1] = NaN THEN 5 ELSE Clamp(raw.confidence[1])

RECURSIVE DropNaN(_)
DropNaN(q) ==
  IF q = <<>> THEN <<>>
  ELSE (IF Head(q) = NaN THEN <<>> ELSE <<Head(q)>>) \o DropNaN(Tail(q))

\* the review worker: null, or { ranking: numbers (tenths), confidence }
ReviewOf(raw) ==
  IF raw = Null \/ raw.kind = "garbage" \/ raw.ranking = Absent
    THEN Null
    ELSE [tag |-> "review", ranking |-> DropNaN(raw.ranking[1]), confidence |-> ReviewConfidence(raw)]

\* reviews that take part in the tally: if (!rev || !rev.ranking.length) return;
Counted(rev) == rev # Null /\ rev # Unset /\ Len(rev.ranking) > 0

\* a ranking entry (tenths) that addresses answer k of n: pos - 1 = k - 1 in 0..n-1
Addresses(pos, k) == pos = 10 * k

\* one review's contribution to scores[k] (tenths): conf * (L - idx) at every idx naming k
RECURSIVE ReviewScore(_, _, _)
ReviewScore(rev, k, idx) ==
  IF idx > Len(rev.ranking) THEN 0
  ELSE (IF Addresses(rev.ranking[idx], k)
          THEN rev.confidence * (Len(rev.ranking) - (idx - 1)) ELSE 0)
       + ReviewScore(rev, k, idx + 1)

\* how many entries of one review name answer k
RECURSIVE ReviewCount(_, _, _)
ReviewCount(rev, k, idx) ==
  IF idx > Len(rev.ranking) THEN 0
  ELSE (IF Addresses(rev.ranking[idx], k) THEN 1 ELSE 0) + ReviewCount(rev, k, idx + 1)

\* reviewResults.forEach(...): scores[k], confSum[k] and confCount[k] over the counted reviews
ScoreOf(revs, k) ==
  SeqSum([i \in 1..Len(revs) |-> IF Counted(revs[i]) THEN ReviewScore(revs[i], k, 1) ELSE 0])
ConfCountOf(revs, k) ==
  SeqSum([i \in 1..Len(revs) |-> IF Counted(revs[i]) THEN ReviewCount(revs[i], k, 1) ELSE 0])
ConfSumOf(revs, k) ==
  SeqSum([i \in 1..Len(revs) |->
            IF Counted(revs[i]) THEN revs[i].confidence * ReviewCount(revs[i], k, 1) ELSE 0])

\* the indices in their own order, whatever the scores
SortedByIndex(sc, left) == [i \in 1..Cardinality(left) |-> i]

\* [...Array(N).keys()].sort((a, b) => scores[b] - scores[a]).map(i => i + 1):
\* by score descending, ties in index order (a stable sort)
RECURSIVE SortedByScore(_, _)
SortedByScore(sc, left) ==
  IF left = {} THEN <<>>
  ELSE LET k == CHOOSE x \in left :
                  \A y \in left : sc[y] < sc[x] \/ (sc[y] = sc[x] /\ x <= y)
       IN <<k>> \o SortedByScore(sc, left \ {k})

\* the tally with no uniform fallback: an all-zero table is reported as it is
TallyWithoutFallback(revs, n) ==
  LET scores == [k \in 1..n |-> ScoreOf(revs, k)]
      confSum == [k \in 1..n |-> ConfSumOf(revs, k)]
      confCount == [k \in 1..n |-> ConfCountOf(revs, k)]
      totalScore == SeqSum(scores)
  IN [kind |-> "tally",
      reviewResults |-> revs,
      scores |-> scores,
      percentages |-> [k \in 1..n |->
                         IF totalScore = 0 THEN 0 ELSE RoundDiv(100 * scores[k], totalScore)],
      avgConfidences |-> [k \in 1..n |->
                            IF confCount[k] = 0 THEN <<0, 0>> ELSE <<confSum[k], confCount[k]>>],
      ranking |-> SortedByScore(scores, 1..n)]

\* the tally, the uniform fallback, percentages, averages and the ranking
Tally(revs, n) ==
  LET raw == [k \in 1..n |-> ScoreOf(revs, k)]
      rawSum == [k \in 1..n |-> ConfSumOf(revs, k)]
      rawCount == [k \in 1..n |-> ConfCountOf(revs, k)]
      none == SeqSum(raw) = 0
      scores == IF none THEN [k \in 1..n |-> 10] ELSE raw
      confSum == IF none THEN [k \in 1..n |-> 5] ELSE rawSum
      confCount == IF none THEN [k \in 1..n |-> 1] ELSE rawCount
      totalScore == SeqSum(scores)
  IN [kind |-> "tally",
      reviewResults |-> revs,
      scores |-> scores,
      percentages |-> [k \in 1..n |-> RoundDiv(100 * scores[k], totalScore)],
      \* confSum / confCount, kept as the pair <<confSum, confCount>>; 0 is <<0, 0>>
      avgConfidences |-> [k \in 1..n |->
                            IF confCount[k] = 0 THEN <<0, 0>> ELSE <<confSum[k], confCount[k]>>],
      ranking |-> SortedByScore(scores, 1..n)]

\* callGroq(...) || answers[ranking[0] - 1].answer || answers[0].answer
JuryFinal(fin, ans, ranking) ==
  IF fin # Null /\ fin.text # "" THEN fin.text
  ELSE IF ans[ranking[1]].text # "" THEN ans[ranking[1]].text
  ELSE ans[1].text

JuryPayload(ans, tl, fin) ==
  [kind |-> "result",
   status |-> 200,
   final |-> JuryFinal(fin, ans, tl.ranking),
   chairman |-> ChairmanLabel,
   ranking |-> tl.ranking,
   rankingReason |-> "Confidence-weighted voting",
   percentages |-> tl.percentages,
   avgConfidences |-> tl.avgConfidences,
   modelsUsed |-> [i \in DOMAIN ans |-> ans[i].label],
   modelsAttempted |-> [i \in Roster |-> i],
   transcripts |-> [i \in DOMAIN ans |-> [model |-> ans[i].label, answer |-> ans[i].text]]]

\* what the reviewers may reply: nothing, free text, or an object
SessionReviews(n) ==
  {Null, GarbageReply}
  \cup {JsonReply(r, c, Absent) :
          r \in {Some([i \in 1..n |-> 10 * (n + 1 - i)]), Some([i \in 1..n |-> 10]),
                 Some(<<15, NaN, 10 * (n + 1)>>)},
          c \in {Absent, Some(0), Some(6)}}

\* the review request, the same for every reviewer: the count and per answer
\* `A${i + 1}: ${a.answer.slice(0, 550)}` (the texts here are shorter than 550)
ReviewPrompt(ans) ==
  [n |-> Len(ans),
   answers |-> [i \in DOMAIN ans |-> [ordinal |-> i, text |-> ans[i].text]]]

\* the request arrives: the prompt is trimmed and checked, then phase 1 starts
JuryReceive ==
  /\ variant = "jury"
  /\ spc = "start"
  /\ IF JuryPromptThrows(prompt)
       THEN /\ spc' = "threw"
            /\ UNCHANGED <<response, responses, batchVars>>
       ELSE IF JuryRejectsPrompt(prompt)
         THEN /\ Send(ErrorResponse(200, "Missing prompt"))
              /\ spc' = "done"
              /\ UNCHANGED batchVars
         ELSE /\ spc' = "collect"
              /\ \E fr \in [Roster -> MemberReturns] :
                   BatchStart([i \in Roster |-> i], CollectConcurrency, fr)
              /\ UNCHANGED <<response, responses>>
  /\ UNCHANGED <<variant, prompt, memberOuts, finalAnswer, member, answers, rankingRaw, ranked, calls>>

\* a wave of runInBatches starts: its workers issue their calls
JuryWaveStart ==
  /\ variant = "jury"
  /\ WaveStart
  /\ calls' = calls \o [k \in 1..Len(batchIndices') |->
                          IF spc = "collect"
                            THEN <<"member", items[batchIndices'[k] + 1]>>
                            ELSE <<"review", items[batchIndices'[k] + 1], ReviewPrompt(answers)>>]
  /\ UNCHANGED <<variant, prompt, memberOuts, finalAnswer, spc, member, answers, rankingRaw, ranked, response, responses>>

\* one worker of the wave settles; a member's outcome is what its call returned
JuryWorkerSettles ==
  /\ variant = "jury"
  /\ WorkerSettles
  /\ memberOuts' =
       IF spc = "collect"
         THEN LET k == CHOOSE x \in pending : x \notin pending'
                  i == batchIndices[k] + 1
              IN Append(memberOuts, <<items[i], Settled(i)>>)
         ELSE memberOuts
  /\ UNCHANGED <<variant, prompt, spc, member, answers, rankingRaw, finalAnswer, ranked,
                 calls, response, responses>>

\* phase 1 has returned: the answers are filtered; the empty check; phase 2 starts
JuryCollected ==
  /\ variant = "jury"
  /\ spc = "collect"
  /\ bpc = "returned"
  /\ LET ans == JuryAnswers(results, 1) IN
       /\ answers' = ans
       /\ IF NoAnswers(ans)
            THEN /\ Send(ErrorResponse(200, "No models returned answers."))
                 /\ spc' = "done"
                 /\ UNCHANGED batchVars
            ELSE /\ spc' = "review"
                 /\ \E raws \in [1..Len(ans) -> SessionReviews(Len(ans))] :
                      BatchStart([i \in 1..Len(ans) |-> ans[i].label], ReviewConcurrency,
                                 [i \in 1..Len(ans) |-> ReviewOf(raws[i])])
                 /\ UNCHANGED <<response, responses>>
  /\ UNCHANGED <<variant, prompt, memberOuts, finalAnswer, member, rankingRaw, ranked, calls>>

\* phase 2 has returned: the tally, the ranking, and the chairman call
JuryReviewed ==
  /\ variant = "jury"
  /\ spc = "review"
  /\ bpc = "returned"
  /\ ranked' = Tally(results, Len(answers))
  /\ calls' = Append(calls, <<"synth", ChairmanLabel>>)
  /\ spc' = "synthesis"
  /\ UNCHANGED <<variant, prompt, memberOuts, finalAnswer, member, answers, rankingRaw, response, responses, batchVars>>

\* the chairman call returns; the payload is sent
JurySynthesisReturns ==
  /\ variant = "jury"
  /\ spc = "synthesis"
  /\ \E fin \in SynthesisReturns :
       /\ finalAnswer' = fin
       /\ Send(JuryPayload(answers, ranked, fin))
  /\ spc' = "done"
  /\ UNCHANGED <<variant, prompt, memberOuts, member, answers, rankingRaw, ranked, calls, batchVars>>

\* The handler's promise has rejected. Express 5 passes the rejection to its error
\* handler, which answers 500; Express 4 does nothing and the request stays open.
ExpressAnswersRejection ==
  /\ spc = "threw"
  /\ Send(ErrorResponse(500, "Internal Server Error"))
  /\ spc' = "failed"
  /\ UNCHANGED <<variant, prompt, memberOuts, finalAnswer, member, answers, rankingRaw, ranked, calls>>

(* -------------------------- length variant ----------------------------- *)
\* out.length of the texts a member can return
TextLength(t) == IF t = " b " THEN 3 ELSE 1

\* Math.min(1, out.length / 800), in 800ths
LengthWeight(t) == Min(800, TextLength(t))

\* percentages.indexOf(Math.max(...percentages)): 0-based, the first largest
IndexOfMax(pc) == ArgMax(pc) - 1

\* the payload sent when no member answered
LengthEmptyPayload ==
  [kind |-> "result",
   status |-> 200,
   chairman |-> ChairmanLabel,
   modelsAttempted |-> [i \in Roster |-> i],
   modelsUsed |-> <<>>,
   bestIndex |-> 1,
   bestModel |-> ChairmanLabel,
   ranking |-> <<1>>,
   rankingReason |-> "No models responded",
   percentages |-> <<100>>,
   avgConfidences |-> <<800>>,
   final |-> "No answer could be generated.",
   transcripts |-> <<>>]

\* weighted voting and the payload
LengthPayload(ans) ==
  LET weights == [i \in DOMAIN ans |-> LengthWeight(ans[i].text)]
      total == SeqSum(weights)
      percentages == [i \in DOMAIN ans |-> RoundDiv(100 * weights[i], total)]
      bestIndex == IndexOfMax(percentages)
  IN [kind |-> "result",
      status |-> 200,
      chairman |-> ChairmanLabel,
      modelsAttempted |-> [i \in Roster |-> i],
      modelsUsed |-> [i \in DOMAIN ans |-> ans[i].label],
      bestIndex |-> bestIndex,
      bestModel |-> ans[bestIndex + 1].label,
      ranking |-> [i \in DOMAIN ans |-> i],
      rankingReason |-> "Confidence-weighted voting",
      percentages |-> percentages,
      \* in 800ths
      avgConfidences |-> weights,
      final |-> ans[bestIndex + 1].text,
      transcripts |-> [i \in DOMAIN ans |-> [model |-> ans[i].label, answer |-> ans[i].text]]]

\* the request arrives; no check is made on the prompt; the first member is called
LengthReceive ==
  /\ variant = "length"
  /\ spc = "start"
  /\ member' = 1
  /\ calls' = Append(calls, <<"member", 1>>)
  /\ spc' = "member"
  /\ UNCHANGED <<variant, prompt, memberOuts, finalAnswer, answers, rankingRaw, ranked, response, responses>>

\* the provider helper returns; if (out) the answer is pushed
LengthMemberReturns ==
  /\ variant = "length"
  /\ spc = "member"
  /\ \E out \in MemberReturns :
       /\ memberOuts' = Append(memberOuts, <<member, out>>)
       /\ answers' = IF out # Null
                       THEN Append(answers, [label |-> member, text |-> out.text])
                       ELSE answers
  /\ spc' = "throttle"
  /\ UNCHANGED <<variant, prompt, finalAnswer, member, rankingRaw, ranked, calls, response, responses>>

\* the setTimeout(1200) fires: the next member, or the end of the loop and the payload
LengthThrottleDone ==
  /\ variant = "length"
  /\ spc = "throttle"
  /\ IF member < RosterSize
       THEN /\ member' = member + 1
            /\ calls' = Append(calls, <<"member", member + 1>>)
            /\ spc' = "member"
            /\ UNCHANGED <<response, responses>>
       ELSE /\ Send(IF Len(answers) = 0 THEN LengthEmptyPayload ELSE LengthPayload(answers))
            /\ spc' = "done"
            /\ UNCHANGED <<member, calls>>
  /\ UNCHANGED <<variant, prompt, memberOuts, finalAnswer, answers, rankingRaw, ranked>>

(* ------------------ replies the arbitrator may give --------------------- *)

\* "ranking" arrays: every array of at most MaxN entries
RankingEntries == {10 * k : k \in 1..MaxN} \cup {15, NaN}
RankingArrays == {Some(a) : a \in SeqsUpTo(RankingEntries, MaxN)} \cup {Absent}

\* "confidence" arrays: every array of at most MaxN entries
ConfidenceEntries == {-5, 6, 15, NaN}
ConfidenceArrays == {Some(a) : a \in SeqsUpTo(ConfidenceEntries, MaxN)} \cup {Absent}

\* the permutations of 1..n as "ranking" arrays
PermutationArrays(n) ==
  {Some(r) : r \in {q \in [1..n -> {10 * k : k \in 1..n}] : \A i, j \in 1..n : q[i] = q[j] => i = j}}

\* a few "confidence" arrays for n answers: none, empty, short, exact, long, graded
ProbeConfidences(n) ==
  {Absent, Some(<<>>), Some([i \in 1..(n - 1) |-> 6]), Some([i \in 1..n |-> 6]),
   Some([i \in 1..(n + 1) |-> 6]), Some([i \in 1..n |-> Max(0, 12 - 3 * i)])}

\* a few "ranking" arrays for n answers: none, empty, identity, reverse, repeated, long
ProbeRankings(n) ==
  {Absent, Some(<<>>), Some([i \in 1..n |-> 10 * i]), Some([i \in 1..n |-> 10 * (n + 1 - i)]),
   Some([i \in 1..n |-> 10]), Some([i \in 1..(n + 1) |-> 10 * i])}

\* every "ranking" array against the probe confidences, every permutation
\* against every "confidence" array, and the reply ranking 2, 1, 3 with
\* confidences 0.9, 0.6, 0.3
WideReplies(n) ==
  {Null, GarbageReply, JsonReply(Some(<<20, 10, 30>>), Some(<<9, 6, 3>>), Absent)}
  \cup {JsonReply(r, c, Absent) : r \in RankingArrays, c \in ProbeConfidences(n)}
  \cup {JsonReply(r, c, Absent) : r \in PermutationArrays(n), c \in ConfidenceArrays}

\* the probe arrays against each other, with and without a reason
SessionReplies(n) ==
  {Null, GarbageReply}
  \cup {JsonReply(r, c, why) : r \in ProbeRankings(n), c \in ProbeConfidences(n), why \in Reasons}

(* ----------------------- the reply as a text --------------------------- *)
\* The arbitrator's reply character by character: a letter of prose, a blank,
\* an opening or closing brace, or (as one piece) what stands between the braces
\* of a well-formed object.
Ch(c) == [ch |-> c]
Body(j) == [ch |-> "body", json |-> j]
Structure(j) == <<Ch("{"), Body(j), Ch("}")>>

NotBlank(t) == t.ch # " "
Positions(t, c) == {i \in 1..Len(t) : t[i].ch = c}
Least(S) == CHOOSE m \in S : \A k \in S : m <= k
Greatest(S) == CHOOSE m \in S : \A k \in S : k <= m

\* rankingRaw.trim()
Trimmed(t) ==
  LET inked == {i \in 1..Len(t) : NotBlank(t[i])} IN
    IF inked = {} THEN <<>> ELSE SubSeq(t, Least(inked), Greatest(inked))

\* trimmed.indexOf("{"), trimmed.lastIndexOf("}"): 0-based, -1 when absent
JsonStart(t) == IF Positions(t, "{") = {} THEN -1 ELSE Least(Positions(t, "{")) - 1
JsonEnd(t) == IF Positions(t, "}") = {} THEN -1 ELSE Greatest(Positions(t, "}")) - 1

\* jsonStart >= 0 && jsonEnd > jsonStart ? trimmed.slice(jsonStart, jsonEnd + 1) : trimmed
JsonTextWhole(t) == t
JsonText(t) ==
  IF JsonStart(t) >= 0 /\ JsonEnd(t) > JsonStart(t)
    THEN SubSeq(t, JsonStart(t) + 1, JsonEnd(t) + 1)
    ELSE t

\* JSON.parse(jsonText): blanks around the object are skipped; anything but one
\* well-formed object throws, and the catch leaves the defaults
JsonParse(t) ==
  LET inked == SelectSeq(t, NotBlank) IN
    IF Len(inked) = 3 /\ inked[1].ch = "{" /\ inked[2].ch = "body" /\ inked[3].ch = "}"
      THEN inked[2].json
      ELSE GarbageReply

\* the reply as the try block reads it
ParseReply(t) == JsonParse(JsonText(Trimmed(t)))

\* the ranking call returns a text: it is cut, parsed, validated and scored
ProseRankingReturns(t) ==
  /\ variant = "chairman"
  /\ spc = "ranking"
  /\ rankingRaw' = t
  /\ ranked' = Rank(ParseReply(t), Len(answers))
  /\ calls' = Append(calls, <<"synth", ChairmanLabel>>)
  /\ spc' = "synthesis"
  /\ UNCHANGED <<variant, prompt, memberOuts, finalAnswer, member, answers, response, responses>>

\* what surrounds the object: up to MaxProse characters, braces among them
MaxProse == 2
ProseChars == {Ch("w"), Ch(" "), Ch("{"), Ch("}")}
BraceFreeChars == {Ch("w"), Ch(" ")}
\* the objects replied for n answers: a reversed order with graded confidences
\* and a reason, confidences alone, an order alone with a blank reason
ProseBodies(n) ==
  {JsonReply(Some([i \in 1..n |-> 10 * (n + 1 - i)]), Some([i \in 1..n |-> Max(0, 12 - 3 * i)]), Some("why")),
   JsonReply(Absent, Some([i \in 1..n |-> 6]), Absent),
   JsonReply(Some([i \in 1..n |-> 10 * (n + 1 - i)]), Absent, Some(" "))}
ProseTexts(n) ==
  {pre \o mid \o post : pre \in SeqsUpTo(ProseChars, MaxProse),
                        mid \in {Structure(j) : j \in ProseBodies(n)} \cup {<<>>},
                        post \in SeqsUpTo(ProseChars, MaxProse)}

(***************************************************************************)
(* Specifications                                                          *)
(***************************************************************************)
InitRetry == RetryInit /\ BatchIdle /\ SessionIdle
SpecRetry == InitRetry /\ [][RetryNext]_vars

\* every request sent eventually settles and every sleep eventually ends; the
\* function's own steps are taken
SpecRetryFair == InitRetry /\ [][RetryNext]_vars /\ WF_vars(RetryNext)

InitBatch == RetryIdle /\ BatchInit /\ SessionIdle
SpecBatch == InitBatch /\ [][BatchNext]_vars

\* every worker started eventually settles and every pause eventually ends; the
\* function's own steps are taken
SpecBatchFair == InitBatch /\ [][BatchNext]_vars /\ WF_vars(BatchNext)

\* the chairman variant from the ranking call on, over n answers and every reply
RankInit ==
  /\ RetryIdle
  /\ BatchIdle
  /\ variant = "chairman"
  /\ prompt = "text"
  /\ spc = "ranking"
  /\ member = MaxN
  /\ \E n \in 1..MaxN :
       /\ answers = [i \in 1..n |-> [label |-> i, text |-> "a"]]
       /\ memberOuts = [i \in 1..MaxN |-> <<i, IF i <= n THEN Text("a") ELSE Null>>]
       /\ calls = [i \in 1..(MaxN + 1) |->
                    IF i <= MaxN THEN <<"member", i>>
                    ELSE <<"rank", ChairmanLabel, RankingPrompt(prompt, answers)>>]
  /\ rankingRaw = Unset
  /\ finalAnswer = Unset
  /\ ranked = NoRanked
  /\ response = NoResponse
  /\ responses = 0

RankNext ==
  \/ /\ spc = "ranking"
     /\ \E raw \in WideReplies(Len(answers)) : ChairmanRankingReturns(raw)
     /\ UNCHANGED <<retryVars, batchVars>>
  \/ ChairmanSynthesisReturns /\ UNCHANGED <<retryVars, batchVars>>

SpecRank == RankInit /\ [][RankNext]_vars

\* the chairman variant from the ranking call on, over replies given as texts
ProseNext ==
  \/ /\ spc = "ranking"
     /\ \E t \in ProseTexts(Len(answers)) : ProseRankingReturns(t)
     /\ UNCHANGED <<retryVars, batchVars>>
  \/ ChairmanSynthesisReturns /\ UNCHANGED <<retryVars, batchVars>>

SpecProse == RankInit /\ [][ProseNext]_vars

Variants == {"chairman", "best", "jury", "length"}
Prompts == {"missing", "empty", "number", "text"}

Init ==
  /\ RetryIdle
  /\ BatchIdle
  /\ variant \in Variants
  /\ prompt \in Prompts
  /\ spc = "start"
  /\ member = 0
  /\ answers = <<>>
  /\ memberOuts = <<>>
  /\ rankingRaw = Unset
  /\ finalAnswer = Unset
  /\ ranked = NoRanked
  /\ calls = <<>>
  /\ response = NoResponse
  /\ responses = 0

Next ==
  \/ ChairmanReceive /\ UNCHANGED <<retryVars, batchVars>>
  \/ ChairmanWarmupDone /\ UNCHANGED <<retryVars, batchVars>>
  \/ ChairmanMemberReturns /\ UNCHANGED <<retryVars, batchVars>>
  \/ ChairmanStaggerDone /\ UNCHANGED <<retryVars, batchVars>>
  \/ /\ variant = "chairman"
     /\ spc = "ranking"
     /\ \E raw \in SessionReplies(Len(answers)) : ChairmanRankingReturns(raw)
     /\ UNCHANGED <<retryVars, batchVars>>
  \/ ChairmanSynthesisReturns /\ UNCHANGED <<retryVars, batchVars>>
  \/ BestRankingReturns /\ UNCHANGED <<retryVars, batchVars>>
  \/ BestSynthesisReturns /\ UNCHANGED <<retryVars, batchVars>>
  \/ JuryReceive /\ UNCHANGED retryVars
  \/ JuryWaveStart /\ UNCHANGED retryVars
  \/ JuryWorkerSettles /\ UNCHANGED retryVars
  \/ WaveDone /\ UNCHANGED <<retryVars, sessionVars>>
  \/ PauseDone /\ UNCHANGED <<retryVars, sessionVars>>
  \/ BatchReturn /\ UNCHANGED <<retryVars, sessionVars>>
  \/ JuryCollected /\ UNCHANGED retryVars
  \/ JuryReviewed /\ UNCHANGED retryVars
  \/ JurySynthesisReturns /\ UNCHANGED retryVars
  \/ ExpressAnswersRejection /\ UNCHANGED <<retryVars, batchVars>>
  \/ LengthReceive /\ UNCHANGED <<retryVars, batchVars>>
  \/ LengthMemberReturns /\ UNCHANGED <<retryVars, batchVars>>
  \/ LengthThrottleDone /\ UNCHANGED <<retryVars, batchVars>>

Spec == Init /\ [][Next]_vars


(***************************************************************************)
(* Properties                                                              *)
(***************************************************************************)
\* q is a permutation of 1..n
IsPermutation(q, n) == Len(q) = n /\ Range(q) = 1..n

\* q, a sequence of numbers in tenths, is a permutation of 1..n
IsPermutationInTenths(q, n) == Len(q) = n /\ Range(q) = {10 * k : k \in 1..n}

\* C1: one call of callModelWithRetry never issues more network requests than
\* maxAttempts, whatever the provider and whatever each fetch settles with.
C1_RequestsWithinMaxAttempts == requests <= maxAttempts

\* C1 witness: a call that backed off after every attempt but the last and used
\* every attempt it was allowed.
C1_Witness ==
  /\ rpc = "returned"
  /\ maxAttempts >= 3
  /\ requests = maxAttempts
  /\ Len(sleeps) = maxAttempts - 1

\* C2: when runInBatches returns, slot i holds what fn gave for items[i] (null for
\* a rejection), for every i, whatever the order in which workers settled.
C2_SlotMatchesItem ==
  bpc = "returned" =>
    /\ Len(results) = Len(items)
    /\ \A i \in 1..Len(items) :
         results[i] = IF fnResult[i] = Reject THEN Null ELSE Echo(items[i])

\* C2 witness: 5 items at width 2; in the second wave the later worker has settled
\* before the earlier one and its slot already holds its own item's outcome.
C2_Witness ==
  /\ Len(items) = 5
  /\ batchSize = 2
  /\ bpc = "wave"
  /\ waves = 2
  /\ pending = {1}
  /\ results[3] = Unset
  /\ results[4] = Echo(items[4])

\* C3: a rejecting worker leaves null in its own slot and stops nothing: when the
\* batch returns every item's worker has run and no slot is unset.
C3_RejectionIsLocal ==
  bpc = "returned" =>
    /\ launched = 1..Len(items)
    /\ \A i \in 1..Len(items) :
         /\ results[i] # Unset
         /\ fnResult[i] = Reject => results[i] = Null
         /\ fnResult[i] # Reject => results[i] = fnResult[i]

\* C3 witness: the first worker of the first wave rejected; its wave-mate and the
\* items of the later waves have their outcomes, and the batch has returned.
C3_Witness ==
  /\ bpc = "returned"
  /\ Len(items) = 5
  /\ batchSize = 2
  /\ fnResult[1] = Reject
  /\ results[1] = Null
  /\ results[2] = Echo(items[2])
  /\ results[5] = Echo(items[5])

\* the collection phase has run to its end and gathered nothing
EmptyRoster == spc = "done" /\ calls # <<>> /\ answers = <<>>

\* C4: when no member produced an answer the session answers with an explicit
\* failure, not a result payload, and issues no ranking, review or synthesis call.
C4_EmptyRosterIsAFailure ==
  EmptyRoster =>
    /\ response.kind = "error"
    /\ \A k \in 1..Len(calls) : calls[k][1] = "member"

\* C5: every ranking order the scoring step reads is a permutation of 1..N: the
\* arbitrator's validated order, and every reviewer's ranking that is tallied.
C5_ScoredOrdersArePermutations ==
  /\ ranked.kind = "ranked" => IsPermutation(ranked.rankingIndices, Len(answers))
  /\ ranked.kind = "tally" =>
       \A i \in 1..Len(ranked.reviewResults) :
         Counted(ranked.reviewResults[i]) =>
           IsPermutationInTenths(ranked.reviewResults[i].ranking, Len(answers))

\* the arbitrator's parsed ordering was not a permutation of 1..N
OrderingRejected ==
  /\ ranked.kind = "ranked"
  /\ ~IsPermutation(ParsedRanking(rankingRaw), Len(answers))

\* C6: when the parsed ordering is not a permutation, the order is the identity
\* and every confidence used in scoring is 1.0.
C6_WholeResultReplaced ==
  OrderingRejected =>
    /\ ranked.rankingIndices = IdentityOrder(Len(answers))
    /\ ranked.confByRank = UnitConfidence(Len(answers))

\* C7: when the ranking reply is missing, malformed or not a permutation, the
\* session still answers with a result payload and its rankingReason is "fallback".
C7_ReasonSaysFallback ==
  (OrderingRejected /\ spc = "done") =>
    /\ response.kind = "result"
    /\ response.rankingReason = "fallback"

\* C8: when the synthesis call returned null, final is the text of the answer at
\* the best position: bestIndex (chairman variant), ranking[0] (jury variant).
C8_FinalIsBestAnswerText ==
  (spc = "done" /\ finalAnswer = Null) =>
    /\ response.kind = "result"
    /\ variant = "chairman" => response.final = answers[response.bestIndex].text
    /\ variant = "jury" => response.final = answers[response.ranking[1]].text

\* C8 witness: two answers, the arbitrator put the second first, synthesis failed,
\* and the payload carries the second answer's text as it was collected.
C8_Witness ==
  /\ variant = "chairman"
  /\ spc = "done"
  /\ finalAnswer = Null
  /\ Len(answers) = 2
  /\ answers[1].text # answers[2].text
  /\ response.bestIndex = 2
  /\ response.final = answers[2].text

\* C9: a session that collected at least one answer ends with a result payload
\* whose final text is not empty.
C9_FinalNonEmpty ==
  (spc = "done" /\ Len(answers) >= 1) =>
    /\ response.kind = "result"
    /\ response.final # ""

\* C9 witness: a session with an answer in which both the ranking call and the
\* synthesis call returned null, and a final text was still sent.
C9_Witness ==
  /\ spc = "done"
  /\ Len(answers) >= 1
  /\ rankingRaw = Null
  /\ finalAnswer = Null
  /\ response.kind = "result"
  /\ response.final # ""

\* C10: no session ends by an exception leaving the handler, none is answered
\* twice, and a session that has ended has been answered exactly once.
C10_ExactlyOneResponse ==
  /\ spc \notin {"threw", "failed"}
  /\ responses <= 1
  /\ spc = "done" => responses = 1

\* the calls of the ranking phase: the arbitrator's (chairman variant), the
\* reviewers' (jury variant)
RankingCalls == {k \in 1..Len(calls) : calls[k][1] \in {"rank", "review"}}
SynthesisCalls == {k \in 1..Len(calls) : calls[k][1] = "synth"}

\* C11: a ranking request is issued only after every member call has been issued
\* and has finished and at least one answer exists; the synthesis request is
\* issued only after the ranking phase has finished and the scores are computed.
C11_PhasesOrdered ==
  /\ \A k \in RankingCalls :
       /\ spc \in {"ranking", "review", "synthesis", "done"}
       /\ Len(answers) >= 1
       /\ \A i \in Roster : \E j \in 1..(k - 1) : calls[j] = <<"member", i>>
  /\ \A k \in SynthesisCalls :
       /\ spc \in {"synthesis", "done"}
       /\ k = Len(calls)
       /\ ranked.kind \in {"ranked", "best", "tally"}
       /\ \E j \in 1..(k - 1) : j \in RankingCalls
       /\ variant \in SequentialVariants => rankingRaw # Unset
       /\ variant = "jury" =>
            /\ bpc = "returned"
            /\ \A i \in 1..Len(results) : results[i] # Unset

\* C11 witness: a jury session in which one member gave nothing, the other was
\* reviewed, and the synthesis call has been issued after the tally.
C11_Witness ==
  /\ variant = "jury"
  /\ spc = "synthesis"
  /\ Len(answers) = 1
  /\ calls = << <<"member", 1>>, <<"member", 2>>, <<"review", answers[1].label, ReviewPrompt(answers)>>,
                <<"synth", ChairmanLabel>> >>
  /\ ranked.kind = "tally"

\* a member's call gave text the handler accepts: any text; in the jury variant,
\* text that is not blank
GaveText(out) == out # Null /\ (variant = "jury" => Trim(out.text) # "")

\* the members whose call returned text, and what the handler keeps of it
Contributors ==
  {i \in Roster : \E e \in Range(memberOuts) : e[1] = i /\ GaveText(e[2])}
KeptText(i) ==
  LET e == CHOOSE x \in Range(memberOuts) : x[1] = i
  IN IF variant = "jury" THEN Trim(e[2].text) ELSE e[2].text

\* C12: modelsUsed and transcripts list exactly the members whose call returned
\* text, in roster order, whatever the order in which the calls completed.
C12_UsedInRosterOrder ==
  (spc = "done" /\ response.kind = "result") =>
    LET used == response.modelsUsed IN
      /\ Range(used) = Contributors
      /\ \A i, j \in 1..Len(used) : i < j => used[i] < used[j]
      /\ response.modelsAttempted = [i \in Roster |-> i]
      /\ variant # "best" =>
           /\ Len(response.transcripts) = Len(used)
           /\ \A i \in 1..Len(used) :
                /\ response.transcripts[i].model = used[i]
                /\ response.transcripts[i].answer = KeptText(used[i])

\* C12 witness: a jury session in which the second member's call completed before
\* the first's, both gave text, and the payload lists them in roster order.
C12_Witness ==
  /\ variant = "jury"
  /\ spc = "done"
  /\ response.kind = "result"
  /\ memberOuts[1][1] = 2
  /\ memberOuts[2][1] = 1
  /\ response.modelsUsed = <<1, 2>>
  /\ response.transcripts[1].answer # response.transcripts[2].answer

\* the backoff delays slept so far, in order
RECURSIVE BackoffDelays(_)
BackoffDelays(q) ==
  IF q = <<>> THEN <<>>
  ELSE (IF Head(q)[1] = "backoff" THEN <<Head(q)[2]>> ELSE <<>>) \o BackoffDelays(Tail(q))

\* the latest fetch ended in a transport fault or a retryable status
RetryableFault ==
  \/ lastOutcome.kind = "transport"
  \/ lastOutcome.kind = "status" /\ lastOutcome.status \in {429, 500, 502, 503, 504}

\* C13: callModelWithRetry never raises: no outcome of any attempt leaves the
\* function by an exception, and what it returns is a text or null.
C13_NeverRaises ==
  /\ rpc # "raised"
  /\ rpc = "returned" => (ret = Null \/ ret = Text("content"))
  /\ rpc # "returned" => ret = Unset

\* C13 witness: a call that met a transport fault, then an undecodable body, then
\* a response without text, and returned null.
C13_Witness ==
  /\ rpc = "returned"
  /\ ret = Null
  /\ lastOutcome.kind = "notext"
  /\ Len(sleeps) = 2
  /\ requests = 3

\* C14: the backoff delays of one call start at the provider's base delay, each
\* later one is min(2 x the one before, 20000), so they never decrease and none
\* exceeds 20000 ms.
C14_BackoffSequence ==
  LET d == BackoffDelays(sleeps) IN
    /\ Len(d) >= 1 =>
         d[1] = (CASE model = "groq" -> 1000
                   [] model = "openrouter" -> 2500
                   [] model = "gemini" -> 2000
                   [] model = "deepseek" -> 2500
                   [] OTHER -> 2000)
    /\ \A i \in 2..Len(d) :
         /\ d[i] = (IF 2 * d[i - 1] < 20000 THEN 2 * d[i - 1] ELSE 20000)
         /\ d[i] >= d[i - 1]
    /\ \A i \in 1..Len(d) : d[i] <= 20000

\* C14 witness: an openrouter call whose delays doubled from 2500 up to the
\* ceiling and stayed there.
C14_Witness ==
  /\ model = "openrouter"
  /\ BackoffDelays(sleeps) = <<2500, 5000, 10000, 20000, 20000>>

\* C15: after a transport fault or a retryable status at attempt n: with
\* n < maxAttempts the call sleeps the current delay, doubles it (capped), counts
\* the attempt and issues the next request; with n = maxAttempts it returns null
\* without a sleep and without another request.
C15_RetryableFaultPath ==
  RetryableFault =>
    LET d == BackoffDelays(sleeps) IN
      /\ rpc \in {"backoff", "loop", "fetch", "returned"}
      /\ rpc = "backoff" =>
           /\ attempt < maxAttempts
           /\ requests = attempt
           /\ Len(d) = attempt - 1
      /\ rpc \in {"loop", "fetch"} =>
           /\ attempt <= maxAttempts
           /\ Len(d) = attempt - 1
           /\ delay = (IF 2 * d[Len(d)] < 20000 THEN 2 * d[Len(d)] ELSE 20000)
           /\ requests = (IF rpc = "fetch" THEN attempt ELSE attempt - 1)
      /\ rpc = "returned" =>
           /\ ret = Null
           /\ attempt = maxAttempts
           /\ requests = maxAttempts
           /\ Len(sleeps) = maxAttempts - 1

\* C15 witness: a call allowed two attempts got 503 twice: it slept once after
\* the first and returned null straight after the second.
C15_Witness ==
  /\ rpc = "returned"
  /\ maxAttempts = 2
  /\ lastOutcome = [kind |-> "status", status |-> 503]
  /\ requests = 2
  /\ Len(sleeps) = 1
  /\ ret = Null

\* C16: a failure status outside the retryable set ends the call at once with
\* null: no sleep and no request follows it, however many attempts remain.
C16_OtherStatusReturnsNull ==
  (lastOutcome.kind = "status" /\ lastOutcome.status \notin {429, 500, 502, 503, 504}) =>
    /\ rpc = "returned"
    /\ ret = Null
    /\ requests = attempt
    /\ Len(sleeps) = requests - 1

\* C16 witness: a first attempt answered 404 with five attempts still allowed.
C16_Witness ==
  /\ lastOutcome = [kind |-> "status", status |-> 404]
  /\ maxAttempts = 6
  /\ requests = 1
  /\ sleeps = <<>>
  /\ rpc = "returned"

\* C17: a successful response from which no text can be extracted (a body that
\* cannot be decoded, or one without the text field) ends the call with null: no
\* sleep and no further attempt follows it.
C17_NoRetryAfterSuccessStatus ==
  lastOutcome.kind \in {"badbody", "notext"} =>
    /\ rpc = "returned"
    /\ ret = Null
    /\ Len(sleeps) = requests - 1

\* the indices (1-based) whose worker has been started and has not settled
InFlight == IF bpc = "wave" THEN {batchIndices[k] + 1 : k \in pending} ELSE {}

\* C18: the waves are consecutive runs of at most batchSize items; at most
\* batchSize workers are in flight; a wave's workers are started only when every
\* worker started before has settled and the pause after its wave has elapsed.
C18_WavesAreBounded ==
  /\ [](/\ Cardinality(InFlight) <= batchSize
        /\ Len(batchIndices) <= batchSize
        /\ \A k \in 1..Len(batchIndices) :
             batchIndices[k] = (index - Len(batchIndices)) + (k - 1)
        /\ launched = 1..index
        /\ \A i \in launched \ InFlight : results[i] # Unset
        /\ bpc # "wave" => pending = {})
  /\ [][/\ launched' # launched =>
             /\ bpc = "loop"
             /\ \A i \in launched : results[i] # Unset
             /\ Cardinality(launched' \ launched) <= batchSize
        /\ (bpc' = "loop" /\ bpc # "loop") => bpc = "pause"
        /\ (bpc' = "pause" /\ bpc # "pause") => (bpc = "wave" /\ pending = {})]_vars

\* C18 witness: 5 items at width 2; the second wave has just started: its two
\* workers are in flight and the first wave's two slots are set.
C18_Witness ==
  /\ Len(items) = 5
  /\ batchSize = 2
  /\ bpc = "wave"
  /\ waves = 2
  /\ launched = 1..4
  /\ InFlight = {3, 4}
  /\ results[1] # Unset
  /\ results[2] # Unset
  /\ results[5] = Unset

\* C19: a slot changes only once, from unset, and only when the worker started
\* for its index settles; each settling worker writes its own slot and no other;
\* when the run returns every slot has been written.
C19_SlotWrittenOnce ==
  /\ [][/\ \A i \in 1..Len(results) :
             results'[i] # results[i] =>
               /\ results[i] = Unset
               /\ bpc = "wave"
               /\ \E k \in pending : k \notin pending' /\ batchIndices[k] + 1 = i
        /\ pending' # pending /\ bpc = "wave" =>
             /\ Cardinality(pending \ pending') = 1
             /\ \A k \in pending \ pending' :
                  /\ results[batchIndices[k] + 1] = Unset
                  /\ results'[batchIndices[k] + 1] # Unset]_vars
  /\ [](bpc = "returned" => \A i \in 1..Len(results) : results[i] # Unset)

\* C19 witness: 4 items at width 3 with two rejecting workers, one in each wave;
\* the run has returned with every slot written.
C19_Witness ==
  /\ bpc = "returned"
  /\ Len(items) = 4
  /\ batchSize = 3
  /\ fnResult[2] = Reject
  /\ fnResult[4] = Reject
  /\ results[2] = Null
  /\ results[4] = Null
  /\ results[1] = Echo(items[1])
  /\ results[3] = Echo(items[3])

\* C20: the answer k found at 0-based position p of the order scores
\* (N - p) * clamp(confidence[p], 0, 1); an answer absent from the order scores 0;
\* every score lies between 0 and N.  Scores and confidences are in tenths.
C20_WeightedScore ==
  ranked.kind = "ranked" =>
    LET N == Len(answers)
        order == ranked.rankingIndices
        conf == ranked.confByRank
        score == ranked.pointsPerAnswer
    IN /\ Len(score) = N
       /\ \A k \in 1..N :
            /\ (\A i \in 1..Len(order) : order[i] # k) => score[k] = 0
            /\ \A i \in 1..Len(order) :
                 (order[i] = k /\ \A j \in 1..(i - 1) : order[j] # k) =>
                   score[k] = (N - (i - 1)) *
                                (IF conf[i] < 0 THEN 0 ELSE IF conf[i] > 10 THEN 10 ELSE conf[i])
            /\ 0 <= score[k]
            /\ score[k] <= 10 * N

\* C20 witness: three answers ranked 3, 2, 1 with confidences 1.0, 0.6 and 0:
\* the scores are 0, 1.2 and 3.0.
C20_Witness ==
  /\ Len(answers) = 3
  /\ ranked.kind = "ranked"
  /\ ranked.rankingIndices = <<3, 2, 1>>
  /\ ranked.confByRank = <<10, 6, 0>>
  /\ ranked.pointsPerAnswer = <<0, 12, 30>>

\* the largest entry of a non-empty sequence of numbers
Largest(q) == CHOOSE m \in Range(q) : \A i \in DOMAIN q : q[i] <= m

\* pc holds, for each score, its rounded share of the largest score (0 when the
\* largest is 0)
PercentOfLargest(sc, pc) ==
  /\ DOMAIN pc = DOMAIN sc
  /\ \A k \in DOMAIN sc :
       /\ pc[k] = (IF Largest(sc) = 0 THEN 0
                   ELSE (200 * sc[k] + Largest(sc)) \div (2 * Largest(sc)))
       /\ pc[k] \in 0..100
  /\ Largest(sc) > 0 => \E k \in DOMAIN pc : pc[k] = 100

\* C21: each percentage is round(100 * score / largest score), 0 for every answer
\* when all scores are 0; so each lies in 0..100 and the best answer has 100.
C21_PercentOfMaxScore ==
  /\ ranked.kind = "ranked" => PercentOfLargest(ranked.pointsPerAnswer, ranked.percentages)
  /\ ranked.kind = "tally" => PercentOfLargest(ranked.scores, ranked.percentages)

\* C22: in a result payload that carries bestIndex, bestIndex is the first entry
\* of the returned ranking (the ranking returned is never empty).
C22_BestIsFirstOfRanking ==
  (spc = "done" /\ response.kind = "result" /\ variant \in SequentialVariants) =>
    /\ Len(response.ranking) > 0
    /\ response.bestIndex = response.ranking[1]

\* the reply of Scenario A: order [2,1,3] with confidences [0.9,0.6,0.3]
ScenarioA ==
  /\ Len(answers) = 3
  /\ ranked.kind = "ranked"
  /\ rankingRaw = [kind |-> "json", ranking |-> << <<20, 10, 30>> >>,
                   confidence |-> << <<9, 6, 3>> >>, reason |-> <<>>]

\* C23: Scenario A gives the scores [1.2, 2.7, 0.3], bestIndex 2 and the
\* percentages [44, 100, 11].
C23_ScenarioAScores ==
  ScenarioA =>
    /\ ranked.rankingIndices = <<2, 1, 3>>
    /\ ranked.pointsPerAnswer = <<12, 27, 3>>
    /\ ranked.bestIndex = 2
    /\ ranked.percentages = <<44, 100, 11>>
    /\ spc = "done" => (response.bestIndex = 2 /\ response.percentages = <<44, 100, 11>>)

\* C23 witness: the session of Scenario A has sent its payload.
C23_Witness ==
  /\ ScenarioA
  /\ spc = "done"
  /\ response.kind = "result"
  /\ response.ranking = <<2, 1, 3>>

\* the arbitrator's reply was free text that does not parse
ScenarioB == variant = "chairman" /\ rankingRaw = [kind |-> "garbage"]

\* C24: Scenario B: the order used and returned is [1, ..., N], the synthesis
\* request is issued all the same, and answer 1 is the best.
C24_ScenarioBFallback ==
  ScenarioB =>
    /\ spc \in {"synthesis", "done"}
    /\ ranked.rankingIndices = [i \in 1..Len(answers) |-> i]
    /\ ranked.bestIndex = 1
    /\ calls[Len(calls)] = <<"synth", ChairmanLabel>>
    /\ spc = "done" =>
         /\ response.kind = "result"
         /\ response.ranking = [i \in 1..Len(answers) |-> i]
         /\ response.bestIndex = 1
         /\ response.bestModel = answers[1].label

\* C24 witness: two answers, a reply that does not parse, and the payload sent
\* with the order [1, 2] and a synthesized final text.
C24_Witness ==
  /\ ScenarioB
  /\ spc = "done"
  /\ Len(answers) = 2
  /\ response.ranking = <<1, 2>>
  /\ response.bestIndex = 1
  /\ finalAnswer = Text("synthesis")

\* C25: a session issues the ranking call once and never again; when it returns
\* null the order is [1, ..., N] with every confidence 1.0, and the session goes
\* on to scoring, the synthesis call and the payload.
C25_OneRankingCall ==
  variant = "chairman" =>
    /\ Cardinality({k \in 1..Len(calls) : calls[k][1] = "rank"}) =
         (IF spc \in {"ranking", "synthesis", "done"} /\ response.kind # "error" THEN 1 ELSE 0)
    /\ rankingRaw = Null =>
         /\ spc \in {"synthesis", "done"}
         /\ ranked.kind = "ranked"
         /\ ranked.rankingIndices = [i \in 1..Len(answers) |-> i]
         /\ ranked.confByRank = [i \in 1..Len(answers) |-> 10]
         /\ ranked.pointsPerAnswer = [i \in 1..Len(answers) |-> 10 * (Len(answers) + 1 - i)]
         /\ calls[Len(calls)] = <<"synth", ChairmanLabel>>
         /\ spc = "done" => response.kind = "result"

\* C25 witness: the ranking call returned null, the two answers scored 2.0 and
\* 1.0, and the payload was sent.
C25_Witness ==
  /\ variant = "chairman"
  /\ rankingRaw = Null
  /\ spc = "done"
  /\ Len(answers) = 2
  /\ response.kind = "result"
  /\ response.percentages = <<100, 50>>

\* the reply parsed and carried both arrays, and one of them has not N entries
LengthMismatch ==
  /\ ranked.kind = "ranked"
  /\ rankingRaw \notin {Unset, Null, [kind |-> "garbage"]}
  /\ rankingRaw.ranking # <<>>
  /\ rankingRaw.confidence # <<>>
  /\ \/ Len(rankingRaw.ranking[1]) # Len(answers)
     \/ Len(rankingRaw.confidence[1]) # Len(answers)

\* C26: when either array has a length other than N the reply is rejected as a
\* whole: the order is [1, ..., N] and every confidence is 1.0.
C26_LengthMismatchRejectsAll ==
  LengthMismatch =>
    /\ ranked.rankingIndices = [i \in 1..Len(answers) |-> i]
    /\ ranked.confByRank = [i \in 1..Len(answers) |-> 10]

\* the score table, the averages and the winner kept by the session are what
\* the order, the confidences and N alone determine
ScoresAreAFunctionOfInputs ==
  ranked.kind = "ranked" =>
    LET n == Len(answers)
        pts == PointsPerAnswer(ranked.rankingIndices, ranked.confByRank, n)
    IN /\ ranked.pointsPerAnswer = pts
       /\ ranked.percentages = Percentages(pts)
       /\ ranked.avgConfPerAnswer =
            AvgConfPerAnswer(ranked.rankingIndices, ranked.confByRank, n)
       /\ ranked.bestIndex = BestIndex(ranked.rankingIndices, pts)

\* the step that scores touches the ranking result only: no model request, no
\* batch slot, no answer and no response changes, and the one call it is
\* followed by is the synthesis request
ScoringStepFrame ==
  (ranked.kind = "none" /\ ranked'.kind = "ranked") =>
    /\ UNCHANGED <<retryVars, batchVars>>
    /\ UNCHANGED <<variant, prompt, answers, memberOuts, member, response, responses, finalAnswer>>
    /\ calls' = Append(calls, <<"synth", ChairmanLabel>>)

RankingRequests == {calls[k][3] : k \in RankingCalls}

\* C28: the ranking request identifies each answer by its ordinal only: no
\* member label or provider name appears in it.
C28_RankingRequestIsAnonymous ==
  \A req \in RankingRequests :
    \A i \in DOMAIN req.answers : DOMAIN req.answers[i] = {"ordinal", "text"}

\* the completed sleeps that were the fixed cooldown
CooldownSleeps == {k \in 1..Len(sleeps) : sleeps[k][1] = "cooldown"}

\* C29: in callModelWithRetry a text is returned only after the fixed cooldown
\* sleep has completed, as the last thing before the return; a call that
\* returns null, raises or is still running has performed no cooldown sleep.
C29_CooldownOnlyBeforeText ==
  IF rpc = "returned" /\ ret # Null
    THEN /\ ret.tag = "text"
         /\ CooldownSleeps = {Len(sleeps)}
         /\ sleeps[Len(sleeps)] = <<"cooldown", CooldownMs>>
    ELSE CooldownSleeps = {}

\* C29 witness: a call that backed off once, then got a text and returned it
\* after the cooldown.
C29_Witness ==
  /\ rpc = "returned"
  /\ ret = Text("content")
  /\ requests = 2
  /\ lastOutcome.kind = "text"
  /\ Len(sleeps) = 2
  /\ sleeps[1][1] = "backoff"

\* the reply parsed and its "confidence" array has one entry per answer
ConfidenceAccepted ==
  /\ ranked.kind = "ranked"
  /\ rankingRaw \notin {Unset, Null, [kind |-> "garbage"]}
  /\ rankingRaw.confidence # <<>>
  /\ Len(rankingRaw.confidence[1]) = Len(answers)

\* C30: a confidence entry that is not a number becomes 1.0 and every other
\* entry is clamped into [0, 1] (tenths: 0..10); every confidence used in
\* scoring and every reported average confidence lies in [0, 1].
C30_ConfidenceFailsOpenAndIsClamped ==
  ranked.kind = "ranked" =>
    /\ \A i \in DOMAIN ranked.confByRank : ranked.confByRank[i] \in 0..10
    /\ \A k \in DOMAIN ranked.avgConfPerAnswer : ranked.avgConfPerAnswer[k] \in 0..10
    /\ ConfidenceAccepted =>
         \A i \in 1..Len(answers) :
           LET v == rankingRaw.confidence[1][i] IN
             ranked.confByRank[i] =
               IF v = NaN THEN 10 ELSE IF v < 0 THEN 0 ELSE IF v > 10 THEN 10 ELSE v

\* C30 witness: a reply whose confidences were not a number, 0.6 and -0.5 was
\* scored with 1.0, 0.6 and 0.
C30_Witness ==
  /\ ConfidenceAccepted
  /\ rankingRaw.confidence[1] = <<NaN, 6, -5>>
  /\ ranked.confByRank = <<10, 6, 0>>
  /\ ranked.rankingIndices = <<2, 3, 1>>
  /\ ranked.avgConfPerAnswer = <<0, 10, 6>>

\* the texts made of brace-free prose, the object j, and brace-free prose
Wrapped(j) ==
  {pre \o Structure(j) \o post : pre \in SeqsUpTo(BraceFreeChars, MaxProse),
                                post \in SeqsUpTo(BraceFreeChars, MaxProse)}

\* order, confidences and reason of a ranking result
Verdict(rk) == <<rk.rankingIndices, rk.confByRank, rk.rankingReason>>

\* C31: a reply made of brace-free text, a well-formed ranking object and
\* brace-free text yields the same order, confidences and reason as the bare
\* object alone.
C31_ProseAroundObjectIgnored ==
  spc \in {"synthesis", "done"} =>
    \A j \in ProseBodies(Len(answers)) :
      rankingRaw \in Wrapped(j) =>
        Verdict(ranked) = Verdict(Rank(ParseReply(Structure(j)), Len(answers)))

\* C31 witness: a reversed order of three answers, with prose on both sides of
\* the object, was scored in the reversed order with the object's confidences.
C31_Witness ==
  /\ spc = "synthesis"
  /\ Len(answers) = MaxN
  /\ Len(rankingRaw) = 6
  /\ rankingRaw[1] = Ch("w")
  /\ rankingRaw[2] = Ch(" ")
  /\ rankingRaw[6] = Ch("w")
  /\ rankingRaw[4].ch = "body"
  /\ Verdict(ranked) = << <<3, 2, 1>>, <<9, 6, 3>>, "why">>

\* the resources one call has used so far stay within its budget, the backoff
\* sleeps being at most `most`
WithinBudget(most) ==
  /\ requests <= maxAttempts
  /\ Len(BackoffDelays(sleeps)) <= most
  /\ Cardinality(CooldownSleeps) <= 1

CeilDiv(a, b) == (a + b - 1) \div b

\* a wave is left only into its pause, a pause only into the loop test, and the
\* function returns only from the loop test
PauseFollowsEveryWave ==
  /\ (bpc = "wave" /\ bpc' # "wave") => (bpc' = "pause" /\ pending = {})
  /\ (bpc = "pause" /\ bpc' # "pause") => bpc' = "loop"
  /\ (bpc # "returned" /\ bpc' = "returned") => bpc = "loop"

\* C33: for every finite items list and every batchSize >= 1, when each worker
\* eventually settles, runInBatches returns; it has then run exactly
\* ceil(len(items) / batchSize) waves, and a pause followed every wave, the
\* last one included.
C33_BatchesTerminate ==
  /\ batchSize >= 1 => <>(bpc = "returned")
  /\ [](bpc = "returned" /\ batchSize >= 1 => waves = CeilDiv(Len(items), batchSize))
  /\ [][PauseFollowsEveryWave]_vars

\* C33 witness: five items in waves of two: returned after three waves.
C33_Witness ==
  /\ bpc = "returned"
  /\ Len(items) = 5
  /\ batchSize = 2
  /\ waves = 3
  /\ index = 5

\* the latest fetch gave a success status whose body could not be read or decoded
BodyFault == lastOutcome.kind = "badbody"

\* what the call does from a body fault on: below maxAttempts it goes to sleep
\* the current delay, wakes with the delay doubled up to the ceiling and the
\* attempt counted, and is back at the loop test; otherwise it returns null at once
BodyFaultStep ==
  /\ (rpc = "fetch" /\ lastOutcome'.kind = "badbody") =>
       IF attempt < maxAttempts
         THEN rpc' = "backoff" /\ UNCHANGED <<ret, sleeps, delay, attempt, requests>>
         ELSE rpc' = "returned" /\ ret' = Null /\ UNCHANGED <<sleeps, delay, attempt, requests>>
  /\ (rpc = "backoff" /\ BodyFault) =>
       /\ sleeps' = Append(sleeps, <<"backoff", delay>>)
       /\ delay' = (IF 2 * delay < 20000 THEN 2 * delay ELSE 20000)
       /\ attempt' = attempt + 1
       /\ rpc' = "loop"
  /\ (rpc = "loop" /\ BodyFault) =>
       (rpc' = "fetch" /\ requests' = requests + 1 /\ UNCHANGED <<sleeps, delay, attempt>>)

\* C34: an exception raised while reading or decoding the body of a 2xx
\* response takes the transport-fault path: below maxAttempts the call sleeps
\* the current delay, doubles it (up to the ceiling) and retries; otherwise it
\* returns null.
C34_BodyFaultTakesTransportPath == [][BodyFaultStep]_vars

\* C34 witness: the first response of a groq call could not be decoded; the
\* call slept 1000 ms and has its second request in flight with the delay doubled.
C34_Witness ==
  /\ BodyFault
  /\ rpc = "fetch"
  /\ requests = 2
  /\ sleeps = << <<"backoff", 1000>> >>
  /\ delay = 2000
  /\ attempt = 2

\* a payload that names a best answer has been sent
NamesBest == response.kind = "result" /\ "bestIndex" \in DOMAIN response

\* C35: in every complete result payload bestIndex is a 1-based position among
\* the N collected answers and bestModel is the label at that position:
\* bestModel = modelsUsed[bestIndex - 1] (0-based indexing of modelsUsed).
C35_BestIndexNamesBestModel ==
  NamesBest =>
    /\ response.bestIndex \in 1..Len(response.modelsUsed)
    /\ response.bestModel = response.modelsUsed[response.bestIndex]

\* the jury's tally has been made
Tallied == ranked.kind = "tally"

\* C36: in the jury variant the ranking is a permutation of 1..N in order of
\* non-increasing accumulated score, whatever the reviewers returned; it is the
\* ranking the payload carries.
C36_JuryRankingSortedByScore ==
  Tallied =>
    /\ IsPermutation(ranked.ranking, Len(answers))
    /\ \A i, j \in 1..Len(answers) :
         i < j => ranked.scores[ranked.ranking[i]] >= ranked.scores[ranked.ranking[j]]
    /\ (response.kind = "result" => response.ranking = ranked.ranking)

\* C36 witness: of two answers the second gathered the higher score, one of
\* the reviews being null, and the payload ranks it first.
C36_Witness ==
  /\ Tallied
  /\ Len(answers) = 2
  /\ \E i \in 1..2 : ranked.reviewResults[i] = Null
  /\ ranked.scores[2] > ranked.scores[1]
  /\ response.kind = "result"
  /\ response.ranking = <<2, 1>>

\* the scores accumulated from the reviews sum to zero
NothingScored ==
  /\ Tallied
  /\ SeqSum([k \in 1..Len(answers) |-> ScoreOf(ranked.reviewResults, k)]) = 0

\* C37: in the jury variant, when the accumulated scores sum to zero every
\* answer gets score 1 and average confidence 0.5 (the pair 0.5 / 1), every
\* percentage is round(100 / N) and the ranking is [1, ..., N].
C37_UniformFallback ==
  NothingScored =>
    LET n == Len(answers) IN
      /\ ranked.scores = [k \in 1..n |-> 10]
      /\ ranked.avgConfidences = [k \in 1..n |-> <<5, 1>>]
      /\ ranked.percentages = [k \in 1..n |-> (200 + n) \div (2 * n)]
      /\ ranked.ranking = [k \in 1..n |-> k]

\* C37 witness: two answers, a review that ranked them with confidence 0 and a
\* null review: the uniform table was reported.
C37_Witness ==
  /\ NothingScored
  /\ Len(answers) = 2
  /\ \E i \in 1..2 : /\ ranked.reviewResults[i] # Null
                     /\ ranked.reviewResults[i].confidence = 0
                     /\ Len(ranked.reviewResults[i].ranking) = 2
  /\ \E i \in 1..2 : ranked.reviewResults[i] = Null
  /\ ranked.percentages = <<50, 50>>
  /\ spc = "done"

\* the member calls issued so far, in the order they were issued
IsMemberCall(c) == c[1] = "member"
MemberCalls == SelectSeq(calls, IsMemberCall)

\* the member calls were issued in roster order, and one is in flight exactly
\* while the handler waits for it
OneMemberAtATime ==
  variant \in SequentialVariants =>
    /\ MemberCalls = [i \in 1..member |-> <<"member", i>>]
    /\ Len(MemberCalls) - Len(memberOuts) = (IF spc = "member" THEN 1 ELSE 0)

\* a member call is issued only when a sleep ends (the warmup before the first,
\* the stagger after each of the others) and every earlier call has returned
IssuedAfterStagger ==
  (variant \in SequentialVariants /\ Len(MemberCalls') > Len(MemberCalls)) =>
    /\ spc \in {"warmup", "stagger"}
    /\ spc = "warmup" <=> Len(MemberCalls) = 0
    /\ Len(memberOuts) = Len(MemberCalls)
    /\ Len(MemberCalls') = Len(MemberCalls) + 1

\* C38: in the retrying variants the members are called strictly one at a time
\* in roster order: the call for member i+1 is issued only after the call for
\* member i has returned and the stagger sleep has elapsed, so at most one
\* member request is in flight at any time.
C38_MembersOneAtATime ==
  /\ [] OneMemberAtATime
  /\ [][IssuedAfterStagger]_vars

\* C38 witness: the second member's call is in flight, the first having
\* returned nothing.
C38_Witness ==
  /\ variant = "chairman"
  /\ spc = "member"
  /\ member = 2
  /\ memberOuts = << <<1, Null>> >>
  /\ MemberCalls = << <<"member", 1>>, <<"member", 2>> >>

\* the request carries no prompt, an empty one, or one that is not a string
UnusablePrompt == prompt \in {"missing", "empty", "number"}

\* C39: for a request whose prompt is missing, empty or not a string no member,
\* arbitrator or synthesis call is ever issued, and what is sent to the caller
\* is a failure indication.
C39_UnusablePromptFailsBeforeAnyCall ==
  UnusablePrompt =>
    /\ calls = <<>>
    /\ response.kind # "none" => response.kind = "error"

\* the call is for a provider kind the function has no branch for, or it is
\* allowed no attempt at all
NothingToTry == model \notin KnownProviders \/ maxAttempts < 1

\* C40: when the provider kind is not a known one, or maxAttempts < 1,
\* callModelWithRetry returns null, and it issues no network request and
\* sleeps at no point before that.
C40_NothingToTryReturnsNull ==
  /\ [](NothingToTry =>
          /\ requests = 0
          /\ sleeps = <<>>
          /\ rpc \in {"loop", "returned"}
          /\ rpc = "returned" => ret = Null)
  /\ NothingToTry => <>(rpc = "returned" /\ ret = Null)

\* C40 witness: a call for an unknown provider kind, allowed three attempts,
\* has returned null with no request sent and no sleep.
C40_Witness ==
  /\ model \notin KnownProviders
  /\ maxAttempts = 3
  /\ rpc = "returned"
  /\ ret = Null
  /\ requests = 0
  /\ sleeps = <<>>

====
